---- MODULE Spec2Model ----
(***************************************************************************)
(* Model of src/solidlsp/language_servers/csharp_language_server.py:       *)
(* project discovery (breadth_first_file_scan,                             *)
(* find_solution_or_project_file), construction of CSharpLanguageServer,   *)
(* the handshake in _start_server and the workspace/configuration handler. *)
(* Python strings are sequences of one-character strings, so that          *)
(* startswith / endswith / "in" are computed, not assumed.                 *)
(***************************************************************************)
EXTENDS Integers, Sequences, FiniteSets, TLC

VARIABLES
    \* the file system below the repository root (environment)
    fs,
    \* breadth_first_file_scan and the loop consuming it
    consumer, scan, queue, current_dir, items, yielded,
    sln_file, csproj_file, result,
    \* CSharpLanguageServer.__init__
    pc, which_result, csharp_ls_path, solution_or_project, cmd,
    \* _start_server
    handlers, starts, process_running, sent, init_response,
    initialization_complete, completions_available, err,
    \* the subprocess and the transport (environment)
    raised, signature_emitted, dispatched, unhandled,
    \* handle_workspace_configuration
    incoming, cfg_items, cfg_result, prev_items, prev_result

scanVars == <<consumer, scan, queue, current_dir, items, yielded,
              sln_file, csproj_file, result>>
initVars == <<which_result, csharp_ls_path, solution_or_project, cmd>>
startVars == <<handlers, starts, process_running, sent, init_response,
               initialization_complete, completions_available, err,
               raised, signature_emitted, dispatched, unhandled>>
cfgVars == <<incoming, cfg_items, cfg_result, prev_items, prev_result>>
vars == <<fs, scanVars, pc, initVars, startVars, cfgVars>>

----------------------------------------------------------------------------
(* Bounds *)

\* number of entries below the root of a generated directory tree
MaxNodes == 3
\* number of items in one workspace/configuration request
MaxItems == 2

----------------------------------------------------------------------------
(* Python values *)

None == <<"None">>
\* truth value of a str-or-None value: None and "" are falsy
Truthy(x) == x /= None /\ x /= <<>>

startswith(s, prefix) ==
    Len(s) >= Len(prefix) /\ SubSeq(s, 1, Len(prefix)) = prefix
endswith(s, suffix) ==
    Len(s) >= Len(suffix) /\ SubSeq(s, Len(s) - Len(suffix) + 1, Len(s)) = suffix
\* sub in s
contains(s, sub) ==
    \E i \in 0..(Len(s) - Len(sub)) : SubSeq(s, i + 1, i + Len(sub)) = sub

\* an exception: its type, the message it carries, the underlying cause
\* and, for the capability check, the capabilities named in the message
NoErr == [type |-> "none", message |-> "none", cause |-> "none", missing |-> <<>>]
\* what the transport raised: in which call, and which exception
NoRaise == [at |-> "none", cause |-> "none"]

DOT == <<".">>
SEP == <<"/">>
EXT_SLN == <<".", "s", "l", "n">>
EXT_CSPROJ == <<".", "c", "s", "p", "r", "o", "j">>

----------------------------------------------------------------------------
(* The file system: fs[n] = [parent, name, kind]; fs[1] is root_dir.       *)
(* kind: "file" regular file, "dir" listable directory, "noaccess"         *)
(* directory whose listing raises, "other" neither file nor directory.     *)

ROOT_DIR == <<"r">>
Digit == <<"0", "1", "2", "3", "4", "5", "6", "7", "8", "9">>
NodeChar(n) == <<Digit[n + 1]>>

Labels ==
    { [hidden |-> FALSE, ext |-> EXT_SLN,    kind |-> "file"],
      [hidden |-> FALSE, ext |-> EXT_CSPROJ, kind |-> "file"],
      [hidden |-> TRUE,  ext |-> EXT_SLN,    kind |-> "file"],
      [hidden |-> FALSE, ext |-> <<>>,       kind |-> "dir"],
      [hidden |-> TRUE,  ext |-> <<>>,       kind |-> "dir"],
      [hidden |-> FALSE, ext |-> <<>>,       kind |-> "noaccess"],
      [hidden |-> FALSE, ext |-> EXT_SLN,    kind |-> "other"] }

\* entry names are unique: each carries the number of its node
EntryName(n, lab) == (IF lab.hidden THEN DOT ELSE <<>>) \o NodeChar(n) \o lab.ext

RootEntry == [parent |-> 0, name |-> ROOT_DIR, kind |-> "dir"]

IsDirKind(k) == k \in {"dir", "noaccess"}

\* every tree obtained from t by adding one entry under one of its directories
Entry(p, n, lab) == [parent |-> p, name |-> EntryName(n, lab), kind |-> lab.kind]

Grow(t) ==
    { Append(t, Entry(p, Len(t) + 1, lab)) :
        p \in {n \in DOMAIN t : IsDirKind(t[n].kind)}, lab \in Labels }

RECURSIVE TreesOfSize(_)
TreesOfSize(k) ==
    IF k = 0 THEN { <<RootEntry>> }
    ELSE UNION { Grow(t) : t \in TreesOfSize(k - 1) }

Trees == UNION { TreesOfSize(k) : k \in 0..MaxNodes }

RECURSIVE PathOf(_, _)
\* os.path.join(current_dir, item), from the root down
PathOf(f, n) ==
    IF f[n].parent = 0 THEN f[n].name
    ELSE PathOf(f, f[n].parent) \o SEP \o f[n].name

Exists(f, path) == \E n \in DOMAIN f : PathOf(f, n) = path
NodeAt(f, path) == CHOOSE n \in DOMAIN f : PathOf(f, n) = path

os_path_join(dir, item) == dir \o SEP \o item
os_path_isdir(f, path) == Exists(f, path) /\ IsDirKind(f[NodeAt(f, path)].kind)
os_path_isfile(f, path) == Exists(f, path) /\ f[NodeAt(f, path)].kind = "file"

\* os.listdir raises PermissionError / OSError
listdir_raises(f, path) == ~Exists(f, path) \/ f[NodeAt(f, path)].kind /= "dir"
\* os.listdir: the names of the entries of the directory
os_listdir(f, path) ==
    LET d == NodeAt(f, path)
        kids == SelectSeq(f, LAMBDA e : e.parent = d)
    IN  [i \in 1..Len(kids) |-> kids[i].name]

Depth(path) == Len(SelectSeq(path, LAMBDA c : c = "/"))

----------------------------------------------------------------------------
(* breadth_first_file_scan, one step per loop iteration, and the two loops *)
(* that consume it: "find" is find_solution_or_project_file, "drain"       *)
(* consumes every yielded path.                                            *)

ScanStart(root_dir, who) ==
    /\ consumer' = who
    /\ scan' = "running"
    /\ queue' = <<root_dir>>
    /\ current_dir' = None
    /\ items' = <<>>
    /\ yielded' = <<>>
    /\ sln_file' = None
    /\ csproj_file' = None
    /\ result' = None

\* PopDir without the except clause: a failing listing ends the whole scan
PopDir_noexcept ==
    /\ scan = "running"
    /\ items = <<>>
    /\ queue /= <<>>
    /\ current_dir' = Head(queue)
    /\ queue' = IF listdir_raises(fs, Head(queue)) THEN <<>> ELSE Tail(queue)
    /\ items' = IF listdir_raises(fs, Head(queue)) THEN <<>>
                ELSE os_listdir(fs, Head(queue))
    /\ UNCHANGED <<fs, consumer, scan, yielded, sln_file, csproj_file, result,
                   pc, initVars, startVars, cfgVars>>

\* while queue: current_dir = queue.pop(0); try: os.listdir(current_dir)
PopDir ==
    /\ scan = "running"
    /\ items = <<>>
    /\ queue /= <<>>
    /\ current_dir' = Head(queue)
    /\ queue' = Tail(queue)
    /\ items' = IF listdir_raises(fs, Head(queue)) THEN <<>>
                ELSE os_listdir(fs, Head(queue))
    /\ UNCHANGED <<fs, consumer, scan, yielded, sln_file, csproj_file, result,
                   pc, initVars, startVars, cfgVars>>

\* if item.startswith("."): continue
SkipHidden ==
    /\ scan = "running"
    /\ items /= <<>>
    /\ startswith(Head(items), DOT)
    /\ items' = Tail(items)
    /\ UNCHANGED <<fs, consumer, scan, queue, current_dir, yielded,
                   sln_file, csproj_file, result, pc, initVars, startVars, cfgVars>>

\* if os.path.isdir(item_path): queue.append(item_path)
EnqueueDir ==
    /\ scan = "running"
    /\ items /= <<>>
    /\ ~startswith(Head(items), DOT)
    /\ os_path_isdir(fs, os_path_join(current_dir, Head(items)))
    /\ queue' = Append(queue, os_path_join(current_dir, Head(items)))
    /\ items' = Tail(items)
    /\ UNCHANGED <<fs, consumer, scan, current_dir, yielded,
                   sln_file, csproj_file, result, pc, initVars, startVars, cfgVars>>

\* neither a directory nor a regular file: nothing happens
SkipOther ==
    /\ scan = "running"
    /\ items /= <<>>
    /\ ~startswith(Head(items), DOT)
    /\ ~os_path_isdir(fs, os_path_join(current_dir, Head(items)))
    /\ ~os_path_isfile(fs, os_path_join(current_dir, Head(items)))
    /\ items' = Tail(items)
    /\ UNCHANGED <<fs, consumer, scan, queue, current_dir, yielded,
                   sln_file, csproj_file, result, pc, initVars, startVars, cfgVars>>

\* FindBody returning on the first match of either kind
FindBody_first_match(filename) ==
    /\ sln_file' = IF endswith(filename, EXT_SLN) /\ sln_file = None
                   THEN filename ELSE sln_file
    /\ csproj_file' = IF endswith(filename, EXT_SLN) /\ sln_file = None
                      THEN csproj_file
                      ELSE IF endswith(filename, EXT_CSPROJ) /\ csproj_file = None
                           THEN filename ELSE csproj_file
    /\ IF Truthy(sln_file') \/ Truthy(csproj_file')
       THEN scan' = "done" /\ result' = IF Truthy(sln_file') THEN sln_file' ELSE csproj_file'
       ELSE UNCHANGED <<scan, result>>

\* the body of the for loop of find_solution_or_project_file
FindBody(filename) ==
    /\ sln_file' = IF endswith(filename, EXT_SLN) /\ sln_file = None
                   THEN filename ELSE sln_file
    /\ csproj_file' = IF endswith(filename, EXT_SLN) /\ sln_file = None
                      THEN csproj_file
                      ELSE IF endswith(filename, EXT_CSPROJ) /\ csproj_file = None
                           THEN filename ELSE csproj_file
    /\ IF Truthy(sln_file')
       THEN scan' = "done" /\ result' = sln_file'
       ELSE UNCHANGED <<scan, result>>

\* elif os.path.isfile(item_path): yield item_path, and the consumer's loop body
YieldFile ==
    /\ scan = "running"
    /\ items /= <<>>
    /\ ~startswith(Head(items), DOT)
    /\ ~os_path_isdir(fs, os_path_join(current_dir, Head(items)))
    /\ os_path_isfile(fs, os_path_join(current_dir, Head(items)))
    /\ yielded' = Append(yielded, os_path_join(current_dir, Head(items)))
    /\ items' = Tail(items)
    /\ IF consumer = "find"
       THEN FindBody(os_path_join(current_dir, Head(items)))
       ELSE UNCHANGED <<scan, sln_file, csproj_file, result>>
    /\ UNCHANGED <<fs, consumer, queue, current_dir, pc, initVars, startVars, cfgVars>>

\* the queue is empty: the generator is exhausted; find returns csproj_file
Exhausted ==
    /\ scan = "running"
    /\ items = <<>>
    /\ queue = <<>>
    /\ scan' = "done"
    /\ result' = IF consumer = "find" THEN csproj_file ELSE None
    /\ UNCHANGED <<fs, consumer, queue, current_dir, items, yielded,
                   sln_file, csproj_file, pc, initVars, startVars, cfgVars>>

ScanNext == PopDir \/ SkipHidden \/ EnqueueDir \/ SkipOther \/ YieldFile \/ Exhausted

----------------------------------------------------------------------------
(* CSharpLanguageServer.__init__ *)

CSHARP_LS_PATH == <<"/", "b", "i", "n", "/", "c", "s", "h", "a", "r", "p", "-", "l", "s">>
LOG_LEVEL_ARG == <<"-", "-", "l", "o", "g", "L", "e", "v", "e", "l", " ", "t", "r", "a", "c", "e">>

MSG_NOT_FOUND == "csharp-ls not found in PATH"
MSG_START_FAILED == "Failed to start C# language server"
MSG_INITIALIZE_FAILED == "Failed to initialize C# language server"
MSG_MISSING_CAPABILITIES == "Language server is missing required capabilities"

\* what shutil.which("csharp-ls") can return
WhichResults == {None, CSHARP_LS_PATH}

\* _ensure_server_installed that returns whatever shutil.which returned
EnsureServerInstalled_unchecked ==
    /\ pc = "new"
    /\ csharp_ls_path' = which_result
    /\ pc' = "discover"
    /\ UNCHANGED <<fs, scanVars, which_result, solution_or_project, cmd,
                   startVars, cfgVars>>

\* csharp_ls_path = self._ensure_server_installed(...)
EnsureServerInstalled ==
    /\ pc = "new"
    /\ IF ~Truthy(which_result)
       THEN /\ err' = [type |-> "SolidLSPException", message |-> MSG_NOT_FOUND,
                       cause |-> "none", missing |-> <<>>]
            /\ pc' = "failed"
            /\ UNCHANGED csharp_ls_path
       ELSE /\ csharp_ls_path' = which_result
            /\ pc' = "discover"
            /\ UNCHANGED err
    /\ UNCHANGED <<fs, scanVars, which_result, solution_or_project, cmd,
                   handlers, starts, process_running, sent, init_response,
                   initialization_complete, completions_available,
                   raised, signature_emitted, dispatched, unhandled, cfgVars>>

\* find_solution_or_project_file(repository_root_path) is called
Discover ==
    /\ pc = "discover"
    /\ ScanStart(ROOT_DIR, "find")
    /\ pc' = "scanning"
    /\ UNCHANGED <<fs, initVars, startVars, cfgVars>>

\* the rest of __init__: the target is stored, the command is built, the
\* launch info is handed to the base class, the ready event is created
FinishInit ==
    /\ pc = "scanning"
    /\ scan = "done"
    /\ solution_or_project' = result
    /\ cmd' = <<csharp_ls_path, LOG_LEVEL_ARG>>
    /\ initialization_complete' = FALSE
    /\ pc' = "registering"
    /\ UNCHANGED <<fs, scanVars, which_result, csharp_ls_path,
                   handlers, starts, process_running, sent, init_response,
                   completions_available, err,
                   raised, signature_emitted, dispatched, unhandled, cfgVars>>

----------------------------------------------------------------------------
(* _start_server *)

\* the on_notification / on_request calls, in the order of the code
HandlerOrder_no_configuration ==
    << "window/logMessage", "$/progress", "textDocument/publishDiagnostics",
       "window/workDoneProgress/create", "client/registerCapability",
       "workspace/_roslyn_projectNeedsRestore" >>

HandlerOrder ==
    << "window/logMessage", "$/progress", "textDocument/publishDiagnostics",
       "workspace/configuration", "window/workDoneProgress/create",
       "client/registerCapability", "workspace/_roslyn_projectNeedsRestore" >>

\* the exceptions server.start() and server.send.initialize() can raise
Causes == {"OSError", "TimeoutError"}

\* the capabilities an initialize response can carry
CapabilityNames ==
    { "textDocumentSync", "definitionProvider", "referencesProvider",
      "documentSymbolProvider", "hoverProvider", "completionProvider" }

\* an initialize response: with or without the "capabilities" member
Responses ==
    { [has_capabilities |-> TRUE, capabilities |-> c] : c \in SUBSET CapabilityNames }
    \cup { [has_capabilities |-> FALSE, capabilities |-> {}] }

required_capabilities_three ==
    << "textDocumentSync", "definitionProvider", "referencesProvider" >>

required_capabilities ==
    << "textDocumentSync", "definitionProvider", "referencesProvider",
       "documentSymbolProvider" >>

\* init_response.get("capabilities", {})
get_capabilities(response) ==
    IF response.has_capabilities THEN response.capabilities ELSE {}

\* [cap for cap in required_capabilities if cap not in capabilities]
missing_capabilities(response) ==
    SelectSeq(required_capabilities, LAMBDA cap : cap \notin get_capabilities(response))

\* self.server.on_notification(...) / self.server.on_request(...), one call
RegisterHandler ==
    /\ pc = "registering"
    /\ Cardinality(handlers) < Len(HandlerOrder)
    /\ handlers' = handlers \cup {HandlerOrder[Cardinality(handlers) + 1]}
    /\ UNCHANGED <<fs, scanVars, pc, initVars, starts, process_running, sent,
                   init_response, initialization_complete, completions_available,
                   err, raised, signature_emitted, dispatched, unhandled, cfgVars>>

\* self.server.start() returns
ServerStart ==
    /\ pc = "registering"
    /\ Cardinality(handlers) = Len(HandlerOrder)
    /\ starts' = starts + 1
    /\ process_running' = TRUE
    /\ pc' = "send_initialize"
    /\ UNCHANGED <<fs, scanVars, initVars, handlers, sent, init_response,
                   initialization_complete, completions_available, err,
                   raised, signature_emitted, dispatched, unhandled, cfgVars>>

\* self.server.start() raises: except Exception as e: raise SolidLSPException
ServerStartFails(cause) ==
    /\ pc = "registering"
    /\ Cardinality(handlers) = Len(HandlerOrder)
    /\ starts' = starts + 1
    /\ raised' = [at |-> "start", cause |-> cause]
    /\ err' = [type |-> "SolidLSPException", message |-> MSG_START_FAILED,
               cause |-> cause, missing |-> <<>>]
    /\ pc' = "failed"
    /\ UNCHANGED <<fs, scanVars, initVars, handlers, process_running, sent,
                   init_response, initialization_complete, completions_available,
                   signature_emitted, dispatched, unhandled, cfgVars>>

\* self.server.send.initialize(initialize_params): the request goes out
SendInitialize ==
    /\ pc = "send_initialize"
    /\ sent' = Append(sent, "initialize")
    /\ pc' = "await_initialize"
    /\ UNCHANGED <<fs, scanVars, initVars, handlers, starts, process_running,
                   init_response, initialization_complete, completions_available,
                   err, raised, signature_emitted, dispatched, unhandled, cfgVars>>

\* the response is taken as verified without looking at its capabilities
InitializeReturns_unverified(response) ==
    /\ pc = "await_initialize"
    /\ init_response' = <<response>>
    /\ pc' = "notify"
    /\ UNCHANGED <<fs, scanVars, initVars, handlers, starts, process_running, sent,
                   initialization_complete, completions_available,
                   err, raised, signature_emitted, dispatched, unhandled, cfgVars>>

\* init_response = self.server.send.initialize(...) returns
InitializeReturns(response) ==
    /\ pc = "await_initialize"
    /\ init_response' = <<response>>
    /\ pc' = "verify"
    /\ UNCHANGED <<fs, scanVars, initVars, handlers, starts, process_running, sent,
                   initialization_complete, completions_available,
                   err, raised, signature_emitted, dispatched, unhandled, cfgVars>>

\* the failed request is logged and the handshake goes on
InitializeFails_swallowed(cause) ==
    /\ pc = "await_initialize"
    /\ raised' = [at |-> "initialize", cause |-> cause]
    /\ pc' = "notify"
    /\ UNCHANGED <<fs, scanVars, initVars, handlers, starts, process_running, sent,
                   init_response, initialization_complete, completions_available,
                   err, signature_emitted, dispatched, unhandled, cfgVars>>

\* the failed request is retried once on a restarted subprocess
InitializeFails_restart(cause) ==
    /\ pc = "await_initialize"
    /\ raised' = [at |-> "initialize", cause |-> cause]
    /\ IF starts < 2
       THEN /\ starts' = starts + 1
            /\ sent' = Append(sent, "initialize")
            /\ UNCHANGED <<pc, err>>
       ELSE /\ err' = [type |-> "SolidLSPException", message |-> MSG_INITIALIZE_FAILED,
                       cause |-> cause, missing |-> <<>>]
            /\ pc' = "failed"
            /\ UNCHANGED <<starts, sent>>
    /\ UNCHANGED <<fs, scanVars, initVars, handlers, process_running,
                   init_response, initialization_complete, completions_available,
                   signature_emitted, dispatched, unhandled, cfgVars>>

\* self.server.send.initialize(...) raises: raise SolidLSPException(...) from e
InitializeFails(cause) ==
    /\ pc = "await_initialize"
    /\ raised' = [at |-> "initialize", cause |-> cause]
    /\ err' = [type |-> "SolidLSPException", message |-> MSG_INITIALIZE_FAILED,
               cause |-> cause, missing |-> <<>>]
    /\ pc' = "failed"
    /\ UNCHANGED <<fs, scanVars, initVars, handlers, starts, process_running, sent,
                   init_response, initialization_complete, completions_available,
                   signature_emitted, dispatched, unhandled, cfgVars>>

\* missing = [...]; if missing: raise RuntimeError(...)
VerifyCapabilities ==
    /\ pc = "verify"
    /\ IF missing_capabilities(init_response[1]) /= <<>>
       THEN /\ err' = [type |-> "RuntimeError", message |-> MSG_MISSING_CAPABILITIES,
                       cause |-> "none",
                       missing |-> missing_capabilities(init_response[1])]
            /\ pc' = "failed"
       ELSE /\ pc' = "notify"
            /\ UNCHANGED err
    /\ UNCHANGED <<fs, scanVars, initVars, handlers, starts, process_running, sent,
                   init_response, initialization_complete, completions_available,
                   raised, signature_emitted, dispatched, unhandled, cfgVars>>

\* self.server.notify.initialized({})
NotifyInitialized ==
    /\ pc = "notify"
    /\ sent' = Append(sent, "initialized")
    /\ pc' = "set_initialization_complete"
    /\ UNCHANGED <<fs, scanVars, initVars, handlers, starts, process_running,
                   init_response, initialization_complete, completions_available,
                   err, raised, signature_emitted, dispatched, unhandled, cfgVars>>

\* self.initialization_complete.set()
SetInitializationComplete ==
    /\ pc = "set_initialization_complete"
    /\ initialization_complete' = TRUE
    /\ pc' = "set_completions_available"
    /\ UNCHANGED <<fs, scanVars, initVars, handlers, starts, process_running, sent,
                   init_response, completions_available,
                   err, raised, signature_emitted, dispatched, unhandled, cfgVars>>

\* self.completions_available.set(); _start_server returns
SetCompletionsAvailable ==
    /\ pc = "set_completions_available"
    /\ completions_available' = TRUE
    /\ pc' = "ready"
    /\ UNCHANGED <<fs, scanVars, initVars, handlers, starts, process_running, sent,
                   init_response, initialization_complete,
                   err, raised, signature_emitted, dispatched, unhandled, cfgVars>>

----------------------------------------------------------------------------
(* The subprocess (environment) *)

\* the running subprocess writes a line to its diagnostic stream; the line
\* matches the fatal signature or does not
DiagnosticLine(matches) ==
    /\ process_running
    /\ pc /= "failed"
    /\ signature_emitted' = (signature_emitted \/ matches)
    /\ UNCHANGED <<fs, scanVars, pc, initVars, handlers, starts, process_running,
                   sent, init_response, initialization_complete,
                   completions_available, err, raised, dispatched, unhandled, cfgVars>>

\* the running subprocess sends a request or notification; the transport
\* dispatches it to the handler registered for its method, if there is one
ServerMessage(method) ==
    /\ process_running
    /\ pc /= "failed"
    /\ IF method \in handlers
       THEN dispatched' = method /\ UNCHANGED unhandled
       ELSE unhandled' = TRUE /\ UNCHANGED dispatched
    /\ UNCHANGED <<fs, scanVars, pc, initVars, handlers, starts, process_running,
                   sent, init_response, initialization_complete,
                   completions_available, err, raised, signature_emitted, cfgVars>>

\* the methods the subprocess sends during and after the handshake
ServerMethods ==
    { "window/logMessage", "$/progress", "textDocument/publishDiagnostics",
      "workspace/configuration", "window/workDoneProgress/create",
      "client/registerCapability", "workspace/_roslyn_projectNeedsRestore" }

----------------------------------------------------------------------------
(* Specification of the supervisor: construction, then _start_server *)

\* no workspace/configuration request has arrived
NoConfigTraffic ==
    /\ incoming = <<>>
    /\ cfg_items = <<>> /\ cfg_result = <<>>
    /\ prev_items = <<>> /\ prev_result = <<>>

L_sln == [hidden |-> FALSE, ext |-> EXT_SLN, kind |-> "file"]
L_csproj == [hidden |-> FALSE, ext |-> EXT_CSPROJ, kind |-> "file"]
L_dir == [hidden |-> FALSE, ext |-> <<>>, kind |-> "dir"]
L_hidden_dir == [hidden |-> TRUE, ext |-> <<>>, kind |-> "dir"]
L_other == [hidden |-> FALSE, ext |-> EXT_SLN, kind |-> "other"]

\* three repositories: empty; a project file only; a hidden directory, a
\* dangling link, a project file at the root and a solution file one
\* directory down
Repo1 == <<RootEntry>>
Repo2 == <<RootEntry, Entry(1, 2, L_csproj)>>
Repo3 ==
    <<RootEntry, Entry(1, 2, L_hidden_dir), Entry(1, 3, L_other),
      Entry(1, 4, L_csproj), Entry(1, 5, L_dir), Entry(5, 6, L_sln)>>
Repos == {Repo1, Repo2, Repo3}

Init ==
    /\ fs \in Repos
    /\ consumer = "find"
    /\ scan = "idle"
    /\ queue = <<>>
    /\ current_dir = None
    /\ items = <<>>
    /\ yielded = <<>>
    /\ sln_file = None
    /\ csproj_file = None
    /\ result = None
    /\ pc = "new"
    /\ which_result \in WhichResults
    /\ csharp_ls_path = None
    /\ solution_or_project = None /\ cmd = <<>>
    /\ handlers = {} /\ starts = 0 /\ process_running = FALSE
    /\ sent = <<>> /\ init_response = <<>>
    /\ initialization_complete = FALSE /\ completions_available = FALSE
    /\ err = NoErr /\ raised = NoRaise /\ signature_emitted = FALSE
    /\ dispatched = "none" /\ unhandled = FALSE
    /\ NoConfigTraffic

Next ==
    \/ EnsureServerInstalled
    \/ Discover
    \/ PopDir \/ SkipHidden \/ EnqueueDir \/ SkipOther \/ YieldFile \/ Exhausted
    \/ FinishInit
    \/ RegisterHandler
    \/ ServerStart
    \/ \E cause \in Causes : ServerStartFails(cause)
    \/ SendInitialize
    \/ \E response \in Responses : InitializeReturns(response)
    \/ \E cause \in Causes : InitializeFails(cause)
    \/ VerifyCapabilities
    \/ NotifyInitialized
    \/ SetInitializationComplete
    \/ SetCompletionsAvailable
    \/ \E matches \in BOOLEAN : DiagnosticLine(matches)
    \/ \E method \in ServerMethods : ServerMessage(method)

Spec == Init /\ [][Next]_vars

----------------------------------------------------------------------------
(* handle_workspace_configuration *)

S_csharp_solution == <<"c", "s", "h", "a", "r", "p", ".", "s", "o", "l", "u", "t", "i", "o", "n">>
S_csharp == <<"c", "s", "h", "a", "r", "p">>
S_dotnet == <<"d", "o", "t", "n", "e", "t">>
S_enable == <<"e", "n", "a", "b", "l", "e">>
S_show == <<"s", "h", "o", "w">>
S_suppress == <<"s", "u", "p", "p", "r", "e", "s", "s">>
S_navigate == <<"n", "a", "v", "i", "g", "a", "t", "e">>
S_scope == <<"s", "c", "o", "p", "e">>
S_analyzer_scope == <<"a", "n", "a", "l", "y", "z", "e", "r", "_", "d", "i", "a", "g", "n", "o", "s", "t", "i", "c", "s", "_", "s", "c", "o", "p", "e">>
S_compiler_scope == <<"c", "o", "m", "p", "i", "l", "e", "r", "_", "d", "i", "a", "g", "n", "o", "s", "t", "i", "c", "s", "_", "s", "c", "o", "p", "e">>
S_member_insertion == <<"d", "o", "t", "n", "e", "t", "_", "m", "e", "m", "b", "e", "r", "_", "i", "n", "s", "e", "r", "t", "i", "o", "n", "_", "l", "o", "c", "a", "t", "i", "o", "n">>
S_property_generation == <<"d", "o", "t", "n", "e", "t", "_", "p", "r", "o", "p", "e", "r", "t", "y", "_", "g", "e", "n", "e", "r", "a", "t", "i", "o", "n", "_", "b", "e", "h", "a", "v", "i", "o", "r">>
S_location == <<"l", "o", "c", "a", "t", "i", "o", "n">>
S_behavior == <<"b", "e", "h", "a", "v", "i", "o", "r">>
S_tab_width == <<"t", "a", "b", "_", "w", "i", "d", "t", "h">>
S_indent_size == <<"i", "n", "d", "e", "n", "t", "_", "s", "i", "z", "e">>
S_insert_final_newline == <<"i", "n", "s", "e", "r", "t", "_", "f", "i", "n", "a", "l", "_", "n", "e", "w", "l", "i", "n", "e">>

\* the values the handler answers with, besides None and the target path
PY_FALSE == <<"False">>
PY_TRUE == <<"True">>
PY_INT_4 == <<"int", "4">>
V_openFiles == <<"o", "p", "e", "n", "F", "i", "l", "e", "s">>
V_with_other_members == <<"w", "i", "t", "h", "_", "o", "t", "h", "e", "r", "_", "m", "e", "m", "b", "e", "r", "s", "_", "o", "f", "_", "t", "h", "e", "_", "s", "a", "m", "e", "_", "k", "i", "n", "d">>
V_prefer_throwing == <<"p", "r", "e", "f", "e", "r", "_", "t", "h", "r", "o", "w", "i", "n", "g", "_", "p", "r", "o", "p", "e", "r", "t", "i", "e", "s">>

\* section names the subprocess asks for
Q_csharp_enable == <<"c", "s", "h", "a", "r", "p", ".", "e", "n", "a", "b", "l", "e">>
Q_dotnet_scope == <<"d", "o", "t", "n", "e", "t", ".", "c", "o", "m", "p", "i", "l", "e", "r", "_", "d", "i", "a", "g", "n", "o", "s", "t", "i", "c", "s", "_", "s", "c", "o", "p", "e">>
Q_csharp_location == <<"c", "s", "h", "a", "r", "p", ".", "l", "o", "c", "a", "t", "i", "o", "n">>
Q_dotnet_plain == <<"d", "o", "t", "n", "e", "t", ".", "x">>
Q_editor == <<"e", "d", "i", "t", "o", "r", ".", "x">>

Sections ==
    { S_csharp_solution, Q_csharp_enable, Q_dotnet_scope, S_member_insertion,
      S_property_generation, Q_csharp_location, Q_dotnet_plain,
      S_tab_width, S_indent_size, S_insert_final_newline, Q_editor }

\* a ConfigurationItem: "section" is optional
ConfigurationItems ==
    { [section |-> s] : s \in Sections } \cup { [scopeUri |-> ROOT_DIR] }

\* the lists of at most n items
ItemLists(n) == UNION { [1..k -> ConfigurationItems] : k \in 0..n }

\* item.get("section", "")
get_section(item) == IF "section" \in DOMAIN item THEN item.section ELSE <<>>

\* the value appended for one item: the if / elif chain of the loop body
config_value(section, target) ==
    IF section = S_csharp_solution
    THEN (IF Truthy(target) THEN target ELSE None)
    ELSE IF startswith(section, S_dotnet) \/ startswith(section, S_csharp)
    THEN IF \/ contains(section, S_enable) \/ contains(section, S_show)
            \/ contains(section, S_suppress) \/ contains(section, S_navigate)
         THEN PY_FALSE
         ELSE IF contains(section, S_scope)
         THEN (IF contains(section, S_analyzer_scope) THEN V_openFiles
               ELSE IF contains(section, S_compiler_scope) THEN V_openFiles
               ELSE V_openFiles)
         ELSE IF section = S_member_insertion THEN V_with_other_members
         ELSE IF section = S_property_generation THEN V_prefer_throwing
         ELSE IF contains(section, S_location) \/ contains(section, S_behavior)
         THEN None
         ELSE None
    ELSE IF section = S_tab_width \/ section = S_indent_size THEN PY_INT_4
    ELSE IF section = S_insert_final_newline THEN PY_TRUE
    ELSE None

\* the handler appending an answer only when it has one
handle_workspace_configuration_skip_null(its, target) ==
    LET all == [i \in 1..Len(its) |-> config_value(get_section(its[i]), target)]
    IN  SelectSeq(all, LAMBDA v : v /= None)

\* result = []; for item in items: result.append(...); return result
handle_workspace_configuration(its, target) ==
    [i \in 1..Len(its) |-> config_value(get_section(its[i]), target)]

\* the subprocess sends workspace/configuration; the registered handler answers
HandleConfiguration ==
    /\ pc = "ready"
    /\ process_running
    /\ "workspace/configuration" \in handlers
    /\ incoming /= <<>>
    /\ incoming' = Tail(incoming)
    /\ prev_items' = cfg_items
    /\ prev_result' = cfg_result
    /\ cfg_items' = Head(incoming)
    /\ cfg_result' = handle_workspace_configuration(Head(incoming), solution_or_project)
    /\ dispatched' = "workspace/configuration"
    /\ UNCHANGED <<fs, scanVars, pc, initVars, handlers, starts, process_running,
                   sent, init_response, initialization_complete,
                   completions_available, err, raised, signature_emitted, unhandled>>

----------------------------------------------------------------------------
(* Specification of the configuration handler: a started supervisor, and   *)
(* two requests the subprocess is about to send.                           *)

\* the state in which _start_server returned, for a repository whose scan
\* yielded the files of the nodes ns and left the directory of node d current
Started(repo, ns, d, sln, csproj) ==
    /\ fs = repo
    /\ consumer = "find" /\ scan = "done"
    /\ queue = <<>> /\ items = <<>>
    /\ current_dir = PathOf(repo, d)
    /\ yielded = [i \in 1..Len(ns) |-> PathOf(repo, ns[i])]
    /\ sln_file = (IF sln = 0 THEN None ELSE PathOf(repo, sln))
    /\ csproj_file = (IF csproj = 0 THEN None ELSE PathOf(repo, csproj))
    /\ result = (IF sln /= 0 THEN sln_file ELSE csproj_file)
    /\ pc = "ready"
    /\ which_result = CSHARP_LS_PATH /\ csharp_ls_path = CSHARP_LS_PATH
    /\ solution_or_project = result
    /\ cmd = <<CSHARP_LS_PATH, LOG_LEVEL_ARG>>
    /\ handlers = ServerMethods /\ starts = 1 /\ process_running = TRUE
    /\ sent = <<"initialize", "initialized">>
    /\ init_response = << [has_capabilities |-> TRUE,
                           capabilities |-> { required_capabilities[i] :
                                              i \in DOMAIN required_capabilities }] >>
    /\ initialization_complete = TRUE /\ completions_available = TRUE
    /\ err = NoErr /\ raised = NoRaise /\ signature_emitted = FALSE
    /\ dispatched = "none" /\ unhandled = FALSE

\* without a target (Repo1) and with one (Repo3)
StartedSupervisor ==
    \/ Started(Repo1, <<>>, 1, 0, 0)
    \/ Started(Repo3, <<4, 6>>, 5, 6, 4)

InitConfig ==
    /\ StartedSupervisor
    /\ incoming \in { <<<<first>>, second>> :
                        first \in ConfigurationItems, second \in ItemLists(MaxItems) }
    /\ cfg_items = <<>> /\ cfg_result = <<>>
    /\ prev_items = <<>> /\ prev_result = <<>>

SpecConfig == InitConfig /\ [][HandleConfiguration]_vars

----------------------------------------------------------------------------
(* Specification of the discovery functions alone, over every tree *)

\* no supervisor has been constructed
NoSupervisor ==
    /\ which_result = None /\ csharp_ls_path = None
    /\ solution_or_project = None /\ cmd = <<>>
    /\ handlers = {} /\ starts = 0 /\ process_running = FALSE
    /\ sent = <<>> /\ init_response = <<>>
    /\ initialization_complete = FALSE /\ completions_available = FALSE
    /\ err = NoErr /\ raised = NoRaise /\ signature_emitted = FALSE
    /\ dispatched = "none" /\ unhandled = FALSE

InitScan ==
    /\ fs \in Trees
    /\ consumer \in {"find", "drain"}
    /\ scan = "running"
    /\ queue = <<ROOT_DIR>>
    /\ current_dir = None
    /\ items = <<>>
    /\ yielded = <<>>
    /\ sln_file = None
    /\ csproj_file = None
    /\ result = None
    /\ pc = "scan"
    /\ NoSupervisor
    /\ NoConfigTraffic

\* the generator and its consumer run on one thread until they return
SpecScan == InitScan /\ [][ScanNext]_vars /\ WF_vars(ScanNext)

----------------------------------------------------------------------------
(* Properties of the discovery functions *)

RECURSIVE Reachable(_, _)
\* the entry lies below root_dir through listable directories with no hidden name
Reachable(f, n) ==
    \/ f[n].parent = 0
    \/ /\ f[f[n].parent].kind = "dir"
       /\ (f[f[n].parent].parent = 0 \/ f[f[n].parent].name[1] /= ".")
       /\ Reachable(f, f[n].parent)

\* the regular files a scan of f can see
VisibleFiles(f) ==
    { PathOf(f, n) : n \in { m \in DOMAIN f : /\ f[m].kind = "file"
                                              /\ f[m].name[1] /= "."
                                              /\ Reachable(f, m) } }
VisibleWith(f, ext) == { p \in VisibleFiles(f) : endswith(p, ext) }
Nearest(S, p) == p \in S /\ \A q \in S : Depth(p) <= Depth(q)

HasHiddenPart(path) == \E i \in 1..(Len(path) - 1) : path[i] = "/" /\ path[i + 1] = "."

\* C5: find_solution_or_project_file returns a visible .sln file of least
\* depth whenever one exists (even below a shallower .csproj file), else a
\* visible .csproj file of least depth, else None.
C5_Discovery ==
    (consumer = "find" /\ scan = "done") =>
        IF VisibleWith(fs, EXT_SLN) /= {}
        THEN Nearest(VisibleWith(fs, EXT_SLN), result)
        ELSE IF VisibleWith(fs, EXT_CSPROJ) /= {}
             THEN Nearest(VisibleWith(fs, EXT_CSPROJ), result)
             ELSE result = None

\* a .sln file was returned although a .csproj file lies nearer to the root
C5_Witness ==
    /\ consumer = "find" /\ scan = "done"
    /\ endswith(result, EXT_SLN)
    /\ \E q \in VisibleWith(fs, EXT_CSPROJ) : Depth(q) < Depth(result)

ScanSafe ==
    /\ \A i \in 1..Len(yielded) : /\ ~HasHiddenPart(yielded[i])
                                   /\ os_path_isfile(fs, yielded[i])
    /\ \A i \in 1..Len(queue) : ~HasHiddenPart(queue[i])
    /\ \A i, j \in 1..Len(yielded) : i < j => Depth(yielded[i]) <= Depth(yielded[j])
    /\ \A i, j \in 1..Len(yielded) : i /= j => yielded[i] /= yielded[j]
    /\ (consumer = "drain" /\ scan = "done") =>
            { yielded[i] : i \in 1..Len(yielded) } = VisibleFiles(fs)

\* C10: the scan terminates; it yields only regular files, none with a hidden
\* name or below a hidden directory, in non-decreasing depth, none twice; a
\* drained scan has yielded every visible file, also when a directory could
\* not be listed.
C10_ScanTotal == []ScanSafe /\ <>(scan = "done")

\* a drained scan that met an unlistable directory below the root and
\* still yielded a file one directory down
C10_Witness ==
    /\ consumer = "drain" /\ scan = "done"
    /\ \E n \in DOMAIN fs : fs[n].kind = "noaccess" /\ fs[n].parent = 1
    /\ \E i \in 1..Len(yielded) : Depth(yielded[i]) = 2

----------------------------------------------------------------------------
(* Properties of the supervisor *)

RequiredFour ==
    { "textDocumentSync", "definitionProvider", "referencesProvider",
      "documentSymbolProvider" }

\* the initialize response has arrived and carries all four capabilities
HasAllFour ==
    /\ init_response /= <<>>
    /\ init_response[1].has_capabilities
    /\ RequiredFour \subseteq init_response[1].capabilities

Count(seq, x) == Len(SelectSeq(seq, LAMBDA y : y = x))

\* C1: once the capability check has run, the handshake has failed with the
\* capability error (RuntimeError naming exactly the absent capabilities) if
\* one of the four required capabilities is absent from the response, and
\* has not failed if all four are present, whatever else is present.
C1_CapabilityGate ==
    (init_response /= <<>> /\ pc /= "verify") =>
        IF HasAllFour
        THEN pc /= "failed" /\ err = NoErr
        ELSE /\ pc = "failed"
             /\ err.type = "RuntimeError"
             /\ err.message = MSG_MISSING_CAPABILITIES
             /\ { err.missing[i] : i \in DOMAIN err.missing }
                    = RequiredFour \ get_capabilities(init_response[1])

\* the check has failed on a response that lacks exactly one required
\* capability and carries an extra one
C1_Witness ==
    /\ pc = "failed"
    /\ init_response /= <<>>
    /\ Cardinality(RequiredFour \ init_response[1].capabilities) = 1
    /\ "hoverProvider" \in init_response[1].capabilities

\* C2: the initialized notification is sent and the two ready flags are set
\* only after the initialize response arrived with all four required
\* capabilities; when the check fails, the notification is never sent and
\* neither flag is set.
C2_ReadyOnlyAfterVerified ==
    /\ ("initialized" \in { sent[i] : i \in DOMAIN sent }
            \/ initialization_complete \/ completions_available)
        => (HasAllFour /\ pc \notin {"await_initialize", "verify", "failed"})
    /\ (init_response /= <<>> /\ ~HasAllFour)
        => /\ Count(sent, "initialized") = 0
           /\ ~initialization_complete
           /\ ~completions_available

\* the supervisor is ready after a response with all four capabilities and more
C2_Witness ==
    /\ pc = "ready"
    /\ initialization_complete /\ completions_available
    /\ Count(sent, "initialized") = 1
    /\ "completionProvider" \in init_response[1].capabilities

\* C3: a transport failure that follows a diagnostic line matching the fatal
\* signature is answered by exactly one restart-and-retry: when the failure
\* has reached the caller, the subprocess has been started twice.
C3_OneRetryOnSignature ==
    (pc = "failed" /\ raised.at /= "none" /\ signature_emitted) => starts = 2

\* C4: a transport failure with no matching diagnostic line before it reaches
\* the caller at once, with its cause, and nothing was restarted or retried:
\* the subprocess was started once and initialize was sent at most once.
C4_NoRetryWithoutSignature ==
    (raised.at /= "none" /\ ~signature_emitted) =>
        /\ pc = "failed"
        /\ err.cause = raised.cause
        /\ starts = 1
        /\ Count(sent, "initialize") <= 1

\* the initialize request failed and no matching line had been written
C4_Witness ==
    /\ pc = "failed"
    /\ raised.at = "initialize"
    /\ ~signature_emitted
    /\ Count(sent, "initialize") = 1

\* C6: when csharp-ls is not found, construction fails with the error that
\* only this failure produces, before discovery, before the command is
\* built and before a subprocess is started; when it is found, the command
\* starts with the path found.
C6_MissingRuntimeFatal ==
    /\ (~Truthy(which_result) /\ pc /= "new") =>
            /\ pc = "failed"
            /\ err.type = "SolidLSPException"
            /\ err.message = MSG_NOT_FOUND
            /\ scan = "idle" /\ yielded = <<>>
            /\ cmd = <<>>
            /\ starts = 0 /\ ~process_running
    /\ err.message = MSG_NOT_FOUND => ~Truthy(which_result)
    /\ (Truthy(which_result) /\ pc \notin {"new", "discover", "scanning"}) =>
            /\ cmd /= <<>>
            /\ cmd[1] = which_result

\* construction failed because csharp-ls was not found
C6_Witness ==
    /\ pc = "failed"
    /\ which_result = None
    /\ err.message = MSG_NOT_FOUND

SevenMethods ==
    { "window/logMessage", "$/progress", "textDocument/publishDiagnostics",
      "workspace/configuration", "window/workDoneProgress/create",
      "client/registerCapability", "workspace/_roslyn_projectNeedsRestore" }

\* C7: whenever the subprocess has been started or the initialize request
\* has been sent, the handlers of all seven methods are registered, and no
\* message of the subprocess has found its handler unregistered.
C7_HandlersBeforeStart ==
    /\ (starts > 0 \/ process_running \/ sent /= <<>>) => SevenMethods \subseteq handlers
    /\ ~unhandled

\* a configuration request arrived while the handshake was waiting for the
\* initialize response, and was dispatched to its handler
C7_Witness ==
    /\ pc = "await_initialize"
    /\ dispatched = "workspace/configuration"

\* C8: a failed start surfaces as the start error with its cause and no
\* initialize request is sent; a failed initialize request surfaces as the
\* initialize error with its cause, the initialized notification is not
\* sent and neither ready flag is set.
C8_FailedStepSurfaced ==
    /\ raised.at = "start" =>
            /\ pc = "failed"
            /\ err.type = "SolidLSPException"
            /\ err.message = MSG_START_FAILED
            /\ err.cause = raised.cause
            /\ sent = <<>>
    /\ raised.at = "initialize" =>
            /\ pc = "failed"
            /\ err.type = "SolidLSPException"
            /\ err.message = MSG_INITIALIZE_FAILED
            /\ err.cause = raised.cause
            /\ Count(sent, "initialized") = 0
            /\ ~initialization_complete
            /\ ~completions_available

\* the initialize request timed out
C8_Witness ==
    /\ pc = "failed"
    /\ raised = [at |-> "initialize", cause |-> "TimeoutError"]
    /\ sent = <<"initialize">>

----------------------------------------------------------------------------
(* Properties of the configuration handler *)

SectionOf(item) == IF "section" \in DOMAIN item THEN item.section ELSE <<>>

\* the section names the handler has an answer for
Recognized(section) ==
    \/ startswith(section, S_csharp) \/ startswith(section, S_dotnet)
    \/ section \in {S_tab_width, S_indent_size, S_insert_final_newline}

====
